---- MODULE Spec2Model ----
(***************************************************************************)
(* Model of FetchAds (model/input/attributes.go): one GraphQL query, then  *)
(* a single sequential pass over the returned ads that decodes each ad's   *)
(* attribute blob, filters it by subcategory and payment method, tallies   *)
(* its ad type and appends an AdItem for every ad that passes.             *)
(*                                                                         *)
(* Strings that the code only compares or concatenates are TLA+ strings.   *)
(* Strings that the code edits character by character (the title and the   *)
(* description) are sequences of one-character strings; the character      *)
(* U+200E is written LRM.                                                  *)
(***************************************************************************)
EXTENDS Integers, Sequences, FiniteSets, TLC

VARIABLES source, pc, response, idx, items, auctionCount, otherCount, ret, queries

vars == <<source, pc, response, idx, items, auctionCount, otherCount, ret, queries>>

\* ------------------------------------------------------------------ bounds
\* Largest number of ads in a batch answer of the source.
MaxAds == 3
\* Largest number of steps in the attribute document of a single-ad answer.
MaxSteps == 4

\* --------------------------------------------------------------- constants
nil == "nil"
LRM == "U+200E"

allowedSubcategories ==
  { "212818c2-5ae3-4a95-88c9-370b3b906df0",
    "456ceaaa-de4d-449f-8621-3af7253fe452",
    "5feb2aa4-3361-401b-ab05-d0623bab291b",
    "7685d106-a4dd-48ed-876b-4dd8116f114c",
    "34991934-f9ef-457c-9824-c82dad366889",
    "1c4df47a-e94a-49b4-aeea-1d77dc4f5458",
    "e84fd5e8-c303-46db-b1c6-e493781aef40",
    "63d47c2b-a5eb-4439-b45d-ccbaa4ca671a",
    "73a17eb3-1686-40d6-bcce-edc5c69b5540" }

\* ------------------------------------------------------------ pure helpers
\* Variant: the decode error is lost.
UnmarshalLenient(blob) ==
  [err |-> nil, attrs |-> [StepsData |-> blob.stepsData]]

\* json.Unmarshal(ad.Attributes, &attrs): a blob that is not a well-formed
\* document of the expected shape yields an error; attrs then holds whatever
\* was decoded before the error was met.
Unmarshal(blob) ==
  [err   |-> IF blob.wellFormed THEN nil ELSE "MalformedAttributes",
   attrs |-> [StepsData |-> blob.stepsData]]

\* Lines 111-131: the first "search_product" step whose identifier is in the
\* allow-list sets shouldInclude and ends the loop.
RECURSIVE ShouldIncludeFrom(_, _)
ShouldIncludeFrom(steps, k) ==
  IF k > Len(steps) THEN FALSE
  ELSE IF steps[k].Name = "search_product" /\ steps[k].Data.ID \in allowedSubcategories
       THEN TRUE
       ELSE ShouldIncludeFrom(steps, k + 1)

\* Variant: the step name is not tested.
ShouldIncludeAnyName(attrs) ==
  \E k \in DOMAIN attrs.StepsData : attrs.StepsData[k].Data.ID \in allowedSubcategories

ShouldInclude(attrs) == ShouldIncludeFrom(attrs.StepsData, 1)

\* Variant: any payment method counts.
AnyPayment(step) == Len(step.Data.PaymentMethods) > 0

\* Variant: only the first payment method is looked at.
FirstPaymentOnline(step) ==
  /\ Len(step.Data.PaymentMethods) > 0
  /\ step.Data.PaymentMethods[1] = "Online Payment"

\* Lines 142-146: the inner loop over one step's payment methods.
HasOnlinePaymentIn(step) ==
  \E j \in DOMAIN step.Data.PaymentMethods : step.Data.PaymentMethods[j] = "Online Payment"

\* Lines 137-151: one pass over the steps, in order, from adType = "",
\* price = "", hasOnlinePayment = false.
RECURSIVE ClassifyFrom(_, _, _)
ClassifyFrom(steps, k, acc) ==
  IF k > Len(steps) THEN acc
  ELSE LET step == steps[k] IN
       ClassifyFrom(steps, k + 1,
         IF step.Name = "delivery_and_payment_methods"
         THEN [acc EXCEPT !.hasOnlinePayment = acc.hasOnlinePayment \/ HasOnlinePaymentIn(step)]
         ELSE IF step.Name = "product_detail"
              THEN [acc EXCEPT !.adType = step.Data.Values.AdType,
                               !.price  = step.Data.Values.Price]
              ELSE acc)

Classify(attrs) ==
  ClassifyFrom(attrs.StepsData, 1, [adType |-> "", price |-> "", hasOnlinePayment |-> FALSE])

\* Variant: the ad type is compared without regard to its first letter's case.
CountAdTypeFolded(adType, counts) ==
  IF adType \in {"auction", "Auction"}
  THEN [counts EXCEPT !.auctionCount = counts.auctionCount + 1]
  ELSE [counts EXCEPT !.otherCount = counts.otherCount + 1]

\* Lines 153-158: the tally of ad types.
CountAdType(adType, counts) ==
  IF adType = "auction"
  THEN [counts EXCEPT !.auctionCount = counts.auctionCount + 1]
  ELSE [counts EXCEPT !.otherCount = counts.otherCount + 1]

\* Lines 163-173: one pass over the steps, in order, from title = "",
\* brand = "", imageSrc = "". imageSrc is assigned only by a
\* "product_detail" step whose image list is not empty.
RECURSIVE ExtractFrom(_, _, _)
ExtractFrom(steps, k, acc) ==
  IF k > Len(steps) THEN acc
  ELSE LET step == steps[k] IN
       ExtractFrom(steps, k + 1,
         IF step.Name = "search_product"
         THEN [acc EXCEPT !.title = step.Data.InputSearchValue]
         ELSE IF step.Name = "product_detail"
              THEN [acc EXCEPT !.brand = step.Data.Values.Brand,
                               !.imageSrc = IF Len(step.Data.Values.Images) > 0
                                            THEN step.Data.Values.Images[1]
                                            ELSE @]
              ELSE acc)

\* Variant: the first step of a name wins instead of the last.
RECURSIVE ExtractFirstFrom(_, _, _)
ExtractFirstFrom(steps, k, acc) ==
  IF k > Len(steps) THEN acc
  ELSE LET step == steps[k] IN
       ExtractFirstFrom(steps, k + 1,
         IF step.Name = "search_product" /\ acc.title = <<>>
         THEN [acc EXCEPT !.title = step.Data.InputSearchValue]
         ELSE IF step.Name = "product_detail" /\ acc.brand = ""
              THEN [acc EXCEPT !.brand = step.Data.Values.Brand,
                               !.imageSrc = IF Len(step.Data.Values.Images) > 0
                                            THEN step.Data.Values.Images[1]
                                            ELSE @]
              ELSE acc)

ExtractFirst(attrs) ==
  ExtractFirstFrom(attrs.StepsData, 1, [title |-> <<>>, brand |-> "", imageSrc |-> ""])

\* Lines 163-173 from their initial values.
Extract(attrs) ==
  ExtractFrom(attrs.StepsData, 1, [title |-> <<>>, brand |-> "", imageSrc |-> ""])

\* Lines 176-180: the image URL is built only from a non-empty imageSrc.
FormatImageSrc(draftID, imageSrc) ==
  IF imageSrc # ""
  THEN "https://ayshei.com/_next/image?url=https://storage.ayshei.com/prod/public/drafts/"
         \o draftID \o "/web/" \o imageSrc \o "&amp;w=3840&amp;q=75"
  ELSE imageSrc

\* Variant: the code_number test is left out.
CodeNumberNeverMissing(ad) == FALSE

\* Lines 183-186: the test that drops an ad without code_number.
MissingCodeNumber(ad) == ad.CodeNumber = ""

\* Variant: only the first occurrence is replaced.
RECURSIVE ReplaceFirst(_, _, _)
ReplaceFirst(s, old, new) ==
  IF s = <<>> THEN <<>>
  ELSE IF Head(s) = old THEN new \o Tail(s)
       ELSE <<Head(s)>> \o ReplaceFirst(Tail(s), old, new)

\* strings.ReplaceAll(s, old, new) for a one-character old: every occurrence
\* of old, left to right, is replaced by new.
RECURSIVE ReplaceAll(_, _, _)
ReplaceAll(s, old, new) ==
  IF s = <<>> THEN <<>>
  ELSE (IF Head(s) = old THEN new ELSE <<Head(s)>>) \o ReplaceAll(Tail(s), old, new)

\* Lines 188-205: the AdItem built for an ad.
BuildItem(ad, title, brand, imageSrc, price) ==
  [ID           |-> ad.ID,
   Title        |-> ReplaceAll(title, "&", <<>>),
   Description  |-> ReplaceAll(ad.Description, LRM, <<>>),
   Link         |-> "https://ayshei.com/product/" \o ad.ID,
   ImageLink    |-> imageSrc,
   Brand        |-> brand,
   Price        |-> price \o " AED",
   Availability |-> "in stock",
   CodeNumber   |-> ad.CodeNumber]

\* Variant: the new item is put in front.
PrependItem(its, item) == <<item>> \o its

\* items = append(items, item)
AppendItem(its, item) == Append(its, item)

\* Lines 103-206: one iteration of the loop over response.Ads, as a function
\* of the ad and of the accumulated items and counters.
LoopBody(ad, st) ==
  LET dec == Unmarshal(ad.Attributes) IN
  IF dec.err # nil THEN st
  ELSE IF ~ShouldInclude(dec.attrs) THEN st
  ELSE LET c       == Classify(dec.attrs)
           counted == CountAdType(c.adType, st)
       IN IF c.hasOnlinePayment
          THEN LET f        == Extract(dec.attrs)
                   imageSrc == FormatImageSrc(ad.DraftID, f.imageSrc)
               IN IF MissingCodeNumber(ad) THEN counted
                  ELSE [counted EXCEPT !.items =
                          AppendItem(@, BuildItem(ad, f.title, f.brand, imageSrc, c.price))]
          ELSE counted

\* --------------------------------------------------------------- the inputs
ZeroStep ==
  [Name |-> "",
   Data |-> [ID |-> "", InputSearchValue |-> <<>>,
             Values |-> [Brand |-> "", Price |-> "", Images |-> <<>>, AdType |-> ""],
             PaymentMethods |-> <<>>]]

SearchOk ==
  [ZeroStep EXCEPT !.Name = "search_product",
                   !.Data.ID = "5feb2aa4-3361-401b-ab05-d0623bab291b",
                   !.Data.InputSearchValue = <<"&", "H", "&", "M", "&">>]

SearchNo ==
  [ZeroStep EXCEPT !.Name = "search_product",
                   !.Data.ID = "00000000-0000-0000-0000-000000000000",
                   !.Data.InputSearchValue = <<"b", "a", "g">>]

PayOnline ==
  [ZeroStep EXCEPT !.Name = "delivery_and_payment_methods",
                   !.Data.PaymentMethods = <<"Cash on Delivery", "Online Payment">>]

PayCash ==
  [ZeroStep EXCEPT !.Name = "delivery_and_payment_methods",
                   !.Data.PaymentMethods = <<"online payment", "Cash on Delivery">>]

DetailAuction ==
  [ZeroStep EXCEPT !.Name = "product_detail",
                   !.Data.Values = [Brand |-> "Gucci", Price |-> "100",
                                    Images |-> <<"abc/def.jpg", "x.jpg">>,
                                    AdType |-> "auction"]]

DetailPlain ==
  [ZeroStep EXCEPT !.Name = "product_detail",
                   !.Data.Values = [Brand |-> "Prada", Price |-> "250",
                                    Images |-> <<>>, AdType |-> "Auction"]]

\* A step of another name that carries every field the filters look for.
Stray ==
  [ZeroStep EXCEPT !.Name = "shipping",
                   !.Data.ID = "212818c2-5ae3-4a95-88c9-370b3b906df0",
                   !.Data.InputSearchValue = <<"s", "&">>,
                   !.Data.Values = [Brand |-> "Stray", Price |-> "1",
                                    Images |-> <<"stray.jpg">>, AdType |-> "auction"],
                   !.Data.PaymentMethods = <<"Online Payment">>]

StepSet == {SearchOk, SearchNo, PayOnline, PayCash, DetailAuction, DetailPlain}

SeqsUpTo(S, n) == UNION {[1..m -> S] : m \in 0..n}

Doc(steps) == [wellFormed |-> TRUE, stepsData |-> steps]

Row(desc, code, blob) == [Description |-> desc, CodeNumber |-> code, Attributes |-> blob]

\* The rows of a batch answer.
BatchRows ==
  { Row(<<"x">>, "0123", [wellFormed |-> FALSE,
                          stepsData |-> <<SearchOk, PayOnline, DetailAuction>>]),
    Row(<<"n">>, "0456", Doc(<<SearchNo, PayOnline, DetailAuction, Stray>>)),
    Row(<<"c">>, "0789", Doc(<<SearchOk, DetailAuction, PayCash>>)),
    Row(<<"a", LRM, LRM, "b", LRM>>, "0123", Doc(<<SearchOk, PayOnline, DetailAuction>>)),
    Row(<<LRM>>, "99999999999999999999",
        Doc(<<PayCash, DetailAuction, SearchNo, PayOnline, DetailPlain, SearchOk, SearchNo>>)),
    Row(<<"e">>, "", Doc(<<SearchOk, PayOnline, DetailAuction>>)),
    Row(<<"p">>, "0001", Doc(<<Stray, SearchOk, PayOnline>>)),
    Row(<<>>, "0002", Doc(<<>>)) }

\* The rows of a single-ad answer: every step sequence up to MaxSteps.
SingleRows ==
  { Row(<<LRM, "d", LRM>>, code, Doc(steps)) :
      code \in {"", "0123"}, steps \in SeqsUpTo(StepSet, MaxSteps) }

\* The source gives every ad its own id and draft id.
MkAds(rows) ==
  [k \in 1..Len(rows) |->
     [ID          |-> "A" \o ToString(k),
      DraftID     |-> "D" \o ToString(k),
      Description |-> rows[k].Description,
      CodeNumber  |-> rows[k].CodeNumber,
      Attributes  |-> rows[k].Attributes]]

Faults == {"transport", "auth", "query"}

\* What the source holds when FetchAds is called: a fault or none, and the
\* ads its answer carries (an answer that reports a fault may carry data).
SourceSet ==
  { [fault |-> nil, ads |-> MkAds(rows)] : rows \in SeqsUpTo(BatchRows, MaxAds) }
  \cup
  { [fault |-> f, ads |-> MkAds(rows)] : f \in Faults, rows \in SeqsUpTo(BatchRows, 1) }
  \cup
  { [fault |-> nil, ads |-> MkAds(<<row>>)] : row \in SingleRows }

\* ------------------------------------------------------------ state machine
Init ==
  /\ source \in SourceSet
  /\ pc = "start"
  /\ response = <<>>
  /\ idx = 0
  /\ items = <<>>
  /\ auctionCount = 0
  /\ otherCount = 0
  /\ ret = [items |-> <<>>, err |-> nil]
  /\ queries = 0

\* Variant: the error of client.Run is not looked at.
RunSwallowsError ==
  /\ pc = "start"
  /\ queries' = queries + 1
  /\ response' = source.ads
  /\ pc' = "loop" /\ idx' = 1 /\ items' = <<>> /\ auctionCount' = 0 /\ otherCount' = 0
  /\ UNCHANGED <<source, ret>>

\* Lines 92-99: client.Run is called once and fills response; its error, if
\* any, is returned with nil items, otherwise the loop starts with empty items
\* and both counters at 0.
Run ==
  /\ pc = "start"
  /\ queries' = queries + 1
  /\ response' = source.ads
  /\ IF source.fault # nil
     THEN /\ ret' = [items |-> <<>>, err |-> source.fault]
          /\ pc' = "returned"
          /\ UNCHANGED <<idx, items, auctionCount, otherCount>>
     ELSE /\ pc' = "loop"
          /\ idx' = 1
          /\ items' = <<>>
          /\ auctionCount' = 0
          /\ otherCount' = 0
          /\ UNCHANGED ret
  /\ UNCHANGED source

\* Lines 102-207: one iteration of the range loop.
ProcessAd ==
  /\ pc = "loop"
  /\ idx <= Len(response)
  /\ LET st == LoopBody(response[idx],
                        [items |-> items, auctionCount |-> auctionCount,
                         otherCount |-> otherCount])
     IN /\ items' = st.items
        /\ auctionCount' = st.auctionCount
        /\ otherCount' = st.otherCount
  /\ idx' = idx + 1
  /\ UNCHANGED <<source, pc, response, ret, queries>>

\* Lines 209-213: the loop is over; the items are returned with a nil error.
Return ==
  /\ pc = "loop"
  /\ idx > Len(response)
  /\ ret' = [items |-> items, err |-> nil]
  /\ pc' = "returned"
  /\ UNCHANGED <<source, response, idx, items, auctionCount, otherCount, queries>>

Next == Run \/ ProcessAd \/ Return

Spec == Init /\ [][Next]_vars

\* The whole pass (lines 102-207) over a sequence of ads, from given items
\* and counters.
RECURSIVE RunOver(_, _)
RunOver(ads, st) ==
  IF ads = <<>> THEN st ELSE RunOver(Tail(ads), LoopBody(Head(ads), st))

\* ------------------------------------------- predicates on ads and records
Processed == 1..(idx - 1)

StepsOf(ad) == ad.Attributes.stepsData

Decodes(ad) == ad.Attributes.wellFormed

SubcategoryMatch(ad) ==
  \E k \in DOMAIN StepsOf(ad) :
    /\ StepsOf(ad)[k].Name = "search_product"
    /\ StepsOf(ad)[k].Data.ID \in allowedSubcategories

OnlinePayment(ad) ==
  \E k \in DOMAIN StepsOf(ad) :
    /\ StepsOf(ad)[k].Name = "delivery_and_payment_methods"
    /\ \E j \in DOMAIN StepsOf(ad)[k].Data.PaymentMethods :
         StepsOf(ad)[k].Data.PaymentMethods[j] = "Online Payment"

Qualifies(ad) ==
  Decodes(ad) /\ SubcategoryMatch(ad) /\ OnlinePayment(ad) /\ ad.CodeNumber # ""

Emitted(ad) == \E j \in DOMAIN items : items[j].ID = ad.ID

RecordOf(ad) == items[CHOOSE j \in DOMAIN items : items[j].ID = ad.ID]

\* The index of the last step of the given name, 0 when there is none.
LastNamed(steps, name) ==
  IF \E k \in DOMAIN steps : steps[k].Name = name
  THEN CHOOSE k \in DOMAIN steps :
         /\ steps[k].Name = name
         /\ \A j \in DOMAIN steps : j > k => steps[j].Name # name
  ELSE 0

\* The index of the last "product_detail" step with at least one image, 0
\* when there is none.
LastDetailWithImage(steps) ==
  IF \E k \in DOMAIN steps :
       steps[k].Name = "product_detail" /\ Len(steps[k].Data.Values.Images) > 0
  THEN CHOOSE k \in DOMAIN steps :
         /\ steps[k].Name = "product_detail" /\ Len(steps[k].Data.Values.Images) > 0
         /\ \A j \in DOMAIN steps :
              j > k => ~(steps[j].Name = "product_detail"
                         /\ Len(steps[j].Data.Values.Images) > 0)
  ELSE 0

LastAdType(ad) ==
  LET d == LastNamed(StepsOf(ad), "product_detail")
  IN IF d = 0 THEN "" ELSE StepsOf(ad)[d].Data.Values.AdType

ImageUrl(draftID, src) ==
  IF src = "" THEN ""
  ELSE "https://ayshei.com/_next/image?url=https://storage.ayshei.com/prod/public/drafts/"
         \o draftID \o "/web/" \o src \o "&amp;w=3840&amp;q=75"

Range(s) == {s[k] : k \in DOMAIN s}

IsPrefix(s, t) == Len(s) <= Len(t) /\ SubSeq(t, 1, Len(s)) = s

IdsOf(s) == [k \in 1..Len(s) |-> s[k].ID]

ZeroState == [items |-> <<>>, auctionCount |-> 0, otherCount |-> 0]

InLoopBody == pc = "loop" /\ idx <= Len(response)

CountedOnce ==
  \/ auctionCount' = auctionCount + 1 /\ otherCount' = otherCount
  \/ auctionCount' = auctionCount /\ otherCount' = otherCount + 1

C2_NonMatchingAdIgnored ==
  [][(InLoopBody /\ ~SubcategoryMatch(response[idx]))
       => /\ auctionCount' = auctionCount
          /\ otherCount' = otherCount
          /\ items' = items
          /\ \A j \in DOMAIN items' : items'[j].ID # response[idx].ID]_vars

\* A decodable non-matching ad with online payment, an auction ad type and a
\* codeNumber has been processed.
C2_Witness ==
  \E k \in Processed :
    /\ Decodes(response[k]) /\ ~SubcategoryMatch(response[k])
    /\ OnlinePayment(response[k]) /\ response[k].CodeNumber # ""
    /\ LastAdType(response[k]) = "auction"
    /\ auctionCount = 0 /\ otherCount = 0 /\ items = <<>>

\* ---------------------------------------------------------------------- C3
\* C3: processing a decodable ad that matches the allow-list and has no
\* "Online Payment" in any "delivery_and_payment_methods" step increments
\* exactly one of auctionCount and otherCount by one and adds no record.
C3_CountedButNotEmitted ==
  [][(InLoopBody /\ Decodes(response[idx]) /\ SubcategoryMatch(response[idx])
        /\ ~OnlinePayment(response[idx]))
       => /\ CountedOnce
          /\ items' = items
          /\ \A j \in DOMAIN items' : items'[j].ID # response[idx].ID]_vars

\* A matching ad with payment methods, none of them "Online Payment", has
\* been counted and is not in the output.
C3_Witness ==
  \E k \in Processed :
    /\ Decodes(response[k]) /\ SubcategoryMatch(response[k])
    /\ ~OnlinePayment(response[k])
    /\ \E s \in DOMAIN StepsOf(response[k]) :
         /\ StepsOf(response[k])[s].Name = "delivery_and_payment_methods"
         /\ Len(StepsOf(response[k])[s].Data.PaymentMethods) > 0
    /\ ~Emitted(response[k])
    /\ auctionCount + otherCount >= 1

\* ---------------------------------------------------------------------- C4
\* C4: an ad whose blob fails to decode does not fail the run and is absent
\* from the output, and the items and counters after any prefix of the ads
\* are those of a pass over the same prefix with the undecodable ads removed.
C4_PartialFailureIsolation ==
  /\ (pc = "returned" /\ source.fault = nil) => ret.err = nil
  /\ \A k \in Processed : ~Decodes(response[k]) => ~Emitted(response[k])
  /\ LET clean == SelectSeq(SubSeq(response, 1, idx - 1), Decodes)
         st    == RunOver(clean, ZeroState)
     IN /\ items = st.items
        /\ auctionCount = st.auctionCount
        /\ otherCount = st.otherCount
        /\ (pc = "returned" /\ source.fault = nil) => ret.items = st.items

\* The run has returned normally although an undecodable ad, whose steps
\* would qualify, preceded an ad that was emitted.
C4_Witness ==
  /\ pc = "returned" /\ ret.err = nil
  /\ \E k, j \in Processed :
       /\ k < j
       /\ ~Decodes(response[k]) /\ SubcategoryMatch(response[k])
       /\ OnlinePayment(response[k]) /\ response[k].CodeNumber # ""
       /\ \E r \in DOMAIN ret.items : ret.items[r].ID = response[j].ID

\* ---------------------------------------------------------------------- C5
\* C5: no record of the accumulated or returned output has an empty
\* codeNumber, and processing a decodable, matching, online-payment ad whose
\* codeNumber is empty adds no record, increments one counter and moves on to
\* the next ad.
C5_NoEmptyCodeNumber ==
  /\ [](/\ \A j \in DOMAIN items : items[j].CodeNumber # ""
        /\ \A j \in DOMAIN ret.items : ret.items[j].CodeNumber # "")
  /\ [][(InLoopBody /\ Decodes(response[idx]) /\ SubcategoryMatch(response[idx])
           /\ OnlinePayment(response[idx]) /\ response[idx].CodeNumber = "")
          => /\ items' = items
             /\ CountedOnce
             /\ pc' = "loop"
             /\ idx' = idx + 1]_vars

\* An ad with empty codeNumber that otherwise qualifies was counted and
\* dropped, and a later ad was emitted.
C5_Witness ==
  \E k, j \in Processed :
    /\ k < j
    /\ Decodes(response[k]) /\ SubcategoryMatch(response[k])
    /\ OnlinePayment(response[k]) /\ response[k].CodeNumber = ""
    /\ ~Emitted(response[k])
    /\ Emitted(response[j])
    /\ auctionCount + otherCount > Len(items)

\* ---------------------------------------------------------------------- C6
\* C6: the source is queried once; when the query fails FetchAds returns the
\* source's error with no records, no ad processed and both counters
\* untouched; when it succeeds FetchAds returns a nil error.
C6_SourceFailureIsFatalOnly ==
  /\ queries <= 1
  /\ pc # "start" => queries = 1
  /\ source.fault # nil => pc # "loop"
  /\ (pc = "returned" /\ source.fault # nil)
       => /\ ret.err = source.fault
          /\ ret.items = <<>>
          /\ items = <<>>
          /\ idx = 0
          /\ auctionCount = 0 /\ otherCount = 0
  /\ (pc = "returned" /\ source.fault = nil) => ret.err = nil

\* The run returned an authentication failure although the answer held ads
\* that would have been emitted.
C6_Witness ==
  /\ pc = "returned"
  /\ source.fault = "auth" /\ ret.err = "auth"
  /\ \E k \in DOMAIN response : Qualifies(response[k])

\* ---------------------------------------------------------------------- C7
\* C7 as stated: in every emitted record brand, price and the first image
\* source all come from the last "product_detail" step; when that step has no
\* image the imageLink is empty, and without any "product_detail" step brand
\* is empty, price is " AED" and imageLink is empty.
C7_AllFromLastDetail ==
  \A k \in Processed :
    Emitted(response[k]) =>
      LET ad    == response[k]
          r     == RecordOf(ad)
          steps == StepsOf(ad)
          d     == LastNamed(steps, "product_detail")
      IN IF d = 0
         THEN r.Brand = "" /\ r.Price = " AED" /\ r.ImageLink = ""
         ELSE /\ r.Brand = steps[d].Data.Values.Brand
              /\ r.Price = steps[d].Data.Values.Price \o " AED"
              /\ r.ImageLink = IF Len(steps[d].Data.Values.Images) = 0 THEN ""
                               ELSE ImageUrl(ad.DraftID, steps[d].Data.Values.Images[1])

\* C7 amended: in every emitted record brand and price come from the last
\* "product_detail" step, and the imageLink is built from the first image of
\* the last "product_detail" step whose image list is not empty (it is empty
\* when no "product_detail" step has an image); without any "product_detail"
\* step brand is empty, price is " AED" and imageLink is empty.
C7_ImageFromLastDetailWithImage ==
  \A k \in Processed :
    Emitted(response[k]) =>
      LET ad    == response[k]
          r     == RecordOf(ad)
          steps == StepsOf(ad)
          d     == LastNamed(steps, "product_detail")
          di    == LastDetailWithImage(steps)
      IN /\ IF d = 0
            THEN r.Brand = "" /\ r.Price = " AED" /\ r.ImageLink = ""
            ELSE /\ r.Brand = steps[d].Data.Values.Brand
                 /\ r.Price = steps[d].Data.Values.Price \o " AED"
         /\ r.ImageLink = IF di = 0 THEN ""
                          ELSE ImageUrl(ad.DraftID, steps[di].Data.Values.Images[1])

\* An emitted record whose ad has two "product_detail" steps, the last one
\* without images, and whose imageLink is built from the earlier step.
C7_Witness ==
  \E k \in Processed :
    /\ Emitted(response[k])
    /\ LET steps == StepsOf(response[k])
           d     == LastNamed(steps, "product_detail")
           di    == LastDetailWithImage(steps)
       IN /\ d # 0 /\ di # 0 /\ di < d
          /\ RecordOf(response[k]).ImageLink # ""
          /\ RecordOf(response[k]).Brand = steps[d].Data.Values.Brand
          /\ RecordOf(response[k]).Brand # steps[di].Data.Values.Brand

\* ---------------------------------------------------------------------- C8
\* C8: in every emitted record the title has no '&' and equals the search
\* text of the ad's last "search_product" step with every '&' deleted, and
\* the description has no U+200E and equals the source description with every
\* U+200E deleted, the other characters in their original order.
C8_TitleAndDescriptionCleaned ==
  \A k \in Processed :
    Emitted(response[k]) =>
      LET ad == response[k]
          r  == RecordOf(ad)
          s  == LastNamed(StepsOf(ad), "search_product")
      IN /\ "&" \notin Range(r.Title)
         /\ LRM \notin Range(r.Description)
         /\ s # 0
         /\ r.Title = SelectSeq(StepsOf(ad)[s].Data.InputSearchValue, LAMBDA c : c # "&")
         /\ r.Description = SelectSeq(ad.Description, LAMBDA c : c # LRM)

\* An emitted record whose search text had several '&' and whose source
\* description had several U+200E, with other characters left.
C8_Witness ==
  \E k \in Processed :
    /\ Emitted(response[k])
    /\ LET ad == response[k]
           r  == RecordOf(ad)
           s  == LastNamed(StepsOf(ad), "search_product")
       IN /\ Len(r.Title) >= 2 /\ Len(r.Description) >= 2
          /\ Len(StepsOf(ad)[s].Data.InputSearchValue) >= Len(r.Title) + 2
          /\ Len(ad.Description) >= Len(r.Description) + 2

\* ---------------------------------------------------------------------- C9
\* C9: after any prefix of the ads the output holds, in source order, one
\* record for each qualifying ad of the prefix and nothing else, and every
\* step keeps the records already present, in place and unmodified, adding at
\* most one at the end.
C9_SourceOrderAppendOnly ==
  /\ [](IdsOf(items) = IdsOf(SelectSeq(SubSeq(response, 1, idx - 1), Qualifies)))
  /\ [][IsPrefix(items, items') /\ Len(items') <= Len(items) + 1]_vars

\* Two records are in the output, from ads separated by an ad that was not
\* emitted.
C9_Witness ==
  /\ Len(items) >= 2
  /\ \E i, j, k \in Processed :
       /\ i < j /\ j < k
       /\ Emitted(response[i]) /\ ~Emitted(response[j]) /\ Emitted(response[k])

\* --------------------------------------------------------------------- C10
\* C10: both counters are 0 before the first ad is processed; after any
\* prefix, and so at the end of the run, auctionCount is the number of
\* decodable matching ads whose last "product_detail" step has ad type
\* "auction" and otherCount the number of the other decodable matching ads;
\* their sum is never smaller than the number of emitted records.
C10_CountersTallyMatchingAds ==
  /\ idx <= 1 => (auctionCount = 0 /\ otherCount = 0)
  /\ auctionCount = Cardinality({k \in Processed :
                       /\ Decodes(response[k]) /\ SubcategoryMatch(response[k])
                       /\ LastAdType(response[k]) = "auction"})
  /\ otherCount = Cardinality({k \in Processed :
                     /\ Decodes(response[k]) /\ SubcategoryMatch(response[k])
                     /\ LastAdType(response[k]) # "auction"})
  /\ auctionCount + otherCount >= Len(items)
  /\ pc = "returned" => auctionCount + otherCount >= Len(ret.items)

\* The run is over with auction ads, other ads (one of them with ad type
\* "Auction", one without "product_detail" step) and fewer records than
\* counted ads.
C10_Witness ==
  /\ pc = "returned"
  /\ auctionCount >= 1 /\ otherCount >= 1
  /\ auctionCount + otherCount > Len(ret.items)
  /\ \E k \in Processed :
       /\ Decodes(response[k]) /\ SubcategoryMatch(response[k])
       /\ LastAdType(response[k]) = "Auction"
====
